---- MODULE Spec2Model ----
(***************************************************************************)
(* Model of jdy_sdk.py: the credential store (MemoryStorage,               *)
(* RedisStorage), the token lifecycle of JDYClient (access_token,          *)
(* _fetch_access_token) and the request/retry core (_request,              *)
(* _handle_result).                                                        *)
(*                                                                         *)
(* Python values are tagged records so that None, '' and 0 stay distinct   *)
(* and truthiness is computed as Python computes it.  Time is counted in   *)
(* ticks of 1/TicksPerSec second so that int(time.time()) truncates.       *)
(* The client runs on the default MemoryStorage (line 162); both stores    *)
(* are exercised on their own by SpecStore.                                *)
(***************************************************************************)
EXTENDS Integers, Sequences, FiniteSets, TLC

---------------------------------------------------------------------------
(* Bounds of the model *)

\* clock ticks per second (time.time() is fractional, expires_at integral)
TicksPerSec == 2
\* last clock tick the model lets time advance to
MaxTime == 5
\* credential exchanges the server answers in one run
MaxExchanges == 3

(* Program constants *)

INVALID_CREDENTIAL == 4010
DefaultExpiresIn == 7200
SafetyMargin == 60

---------------------------------------------------------------------------
(* Python values *)

None == [tag |-> "none", s |-> "", n |-> 0]
Str(x) == [tag |-> "str", s |-> x, n |-> 0]
Num(x) == [tag |-> "int", s |-> "", n |-> x]

\* bool(v)
Truthy(v) ==
  CASE v.tag = "none" -> FALSE
    [] v.tag = "str" -> v.s # ""
    [] v.tag = "int" -> v.n # 0

\* the decimal strings the modelled server uses in place of numbers
DecimalValue == ("0" :> 0) @@ ("4010" :> 4010) @@ ("500" :> 500)

\* int(v) succeeds
IntOk(v) == v.tag = "int" \/ (v.tag = "str" /\ v.s \in DOMAIN DecimalValue)

\* int(v), for IntOk(v)
ToInt(v) == IF v.tag = "int" THEN v ELSE Num(DecimalValue[v.s])

\* an optional field of a JSON object: <<>> when the key is absent
Has(opt) == opt # <<>>
Val(opt) == opt[1]

\* dict.get(key, default) on a function whose domain is the set of keys held
DictGet(d, key, default) == IF key \in DOMAIN d THEN d[key] ELSE default

---------------------------------------------------------------------------
(* Credential stores *)

\* json.dumps(value) for None, str and int values
DecimalText == (0 :> "0") @@ (4010 :> "4010") @@ (500 :> "500") @@ (7200 :> "7200")
JsonDumps(v) ==
  CASE v.tag = "none" -> "null"
    [] v.tag = "str" -> "\"" \o v.s \o "\""
    [] v.tag = "int" -> DecimalText[v.n]

\* the values the model ever puts in a store
StoreValues ==
  {None, Str(""), Str("T0"), Num(0), Num(7200)}
    \cup {Str("T" \o DecimalDigit) : DecimalDigit \in {"1", "2", "3", "4", "5"}}

\* json.loads(text): the value whose JSON text this is
JsonLoads(text) == CHOOSE v \in StoreValues : JsonDumps(v) = text

\* to_text(value) on what redis returns
to_text(value) == IF value = "" THEN "" ELSE value

\* RedisStorage.key_name
key_name(prefix, key) == prefix \o ":" \o key

RedisPrefix == "jdy_session"

\* MemoryStorage.get
MemoryStorage_get(d, key, default) == DictGet(d, key, default)

\* MemoryStorage.set without the None guard
MemoryStorage_set_NoGuard(d, key, value, ttl) ==
  [k \in DOMAIN d \cup {key} |-> IF k = key THEN value ELSE d[k]]

\* MemoryStorage.set: ttl is ignored
MemoryStorage_set(d, key, value, ttl) ==
  IF value = None THEN d
  ELSE [k \in DOMAIN d \cup {key} |-> IF k = key THEN value ELSE d[k]]

\* MemoryStorage.delete
MemoryStorage_delete(d, key) == [k \in DOMAIN d \ {key} |-> d[k]]

\* RedisStorage.get: r maps redis keys to [text, ex]
RedisStorage_get(r, key, default) ==
  LET k == key_name(RedisPrefix, key)
  IN IF k \notin DOMAIN r THEN default ELSE JsonLoads(to_text(r[k].text))

\* RedisStorage.set
RedisStorage_set(r, key, value, ttl) ==
  IF value = None THEN r
  ELSE LET k == key_name(RedisPrefix, key)
           e == [text |-> JsonDumps(value), ex |-> ttl]
       IN [x \in DOMAIN r \cup {k} |-> IF x = k THEN e ELSE r[x]]

\* RedisStorage.delete
RedisStorage_delete(r, key) ==
  LET k == key_name(RedisPrefix, key) IN [x \in DOMAIN r \ {k} |-> r[x]]

---------------------------------------------------------------------------
(* Client configuration *)

client_id == "cid"
username == "user"
account_id == "A"
db_id == "B"

\* JDYClient.access_token_key of a client built with cid and user
AccessTokenKey(cid, user) == cid \o "_" \o user \o "_access_token"

\* JDYClient.access_token_key of the client whose calls are modelled
access_token_key == AccessTokenKey(client_id, username)

\* the check of line 316 with a margin of two minutes
TokenFresh_TwoMinutes(exp, ticks) ==
  exp * TicksPerSec - ticks > 2 * SafetyMargin * TicksPerSec

\* expires_at - timestamp > 60, with the clock given in ticks
TokenFresh(exp, ticks) == exp * TicksPerSec - ticks > SafetyMargin * TicksPerSec

\* int(time.time())
IntTime(ticks) == ticks \div TicksPerSec

\* time.time() at construction: one second after the epoch of the model
StartTime == TicksPerSec

API_BASE_URL == "https://api.kingdee.com"
VOUCHERS == "/jdyaccouting/voucherlist"
ACCOUNTS == "/jdyaccouting/account"

---------------------------------------------------------------------------
(* State *)

VARIABLES
  cfg,         \* constructor arguments: [auto_retry, access_token]
  clients,     \* the client instances using the store: [client_id, username]
  data,        \* MemoryStorage._data: store key -> value
  redis,       \* the redis server behind RedisStorage: redis key -> [text, ex]
  expires_at,  \* JDYClient.expires_at: None or a number of seconds
  now,         \* the clock, in ticks
  nExchanges,  \* credential exchanges answered by the server so far
  server,      \* what the exchange endpoint may answer: "any" or "valid"
  threads,     \* the threads that use the client
  th,          \* per thread: position in the code, locals, and the call's log
  lastOp       \* the last store operation made directly on a store

vars == <<cfg, clients, data, redis, expires_at, now, nExchanges, server, threads, th, lastOp>>

AllThreads == {1, 2}

NoErr == [kind |-> "none", errcode |-> None, errmsg |-> None]
Exc(kind, errcode, errmsg) == [kind |-> kind, errcode |-> errcode, errmsg |-> errmsg]

\* a JSON object of a resource endpoint: {code?, msg?, ...payload}
NoBody == [code |-> <<>>, msg |-> <<>>, payload |-> ""]

NoRet == [tag |-> "none", tok |-> None, res |-> NoBody]
RetToken(tok) == [tag |-> "token", tok |-> tok, res |-> NoBody]
RetResult(res) == [tag |-> "result", tok |-> None, res |-> res]

\* the caller's result_processor: an arbitrary function of the result, kept
\* symbolic as a wrapper around its argument
result_processor(res) == [tag |-> "processed", tok |-> None, res |-> res]

NoFetch == [token |-> <<>>, expires_in |-> 0]

\* no response of the credential-exchange endpoint yet
NoExchange ==
  [http |-> "", errcode |-> <<>>, description |-> Str(""), has_data |-> FALSE,
   access_token |-> <<>>, expires_in |-> <<>>]

\* the arguments of one call of _request by the caller
Call(method, endpoint, body, supplied, auto_retry, processor) ==
  [method |-> method, endpoint |-> endpoint, body |-> body,
   supplied |-> supplied, auto_retry |-> auto_retry, processor |-> processor]

NoCall == Call("", "", "", <<>>, TRUE, FALSE)

\* a thread outside any call
Idle ==
  [pc |-> "idle", kind |-> "none", method |-> "", url |-> "", body |-> "",
   params_tok |-> <<>>, auto_retry |-> TRUE, processor |-> FALSE,
   tok |-> None, expired |-> FALSE, cont |-> "", fres |-> NoFetch, exch |-> NoExchange,
   ret |-> NoRet, err |-> NoErr, sent |-> <<>>, rcvd |-> <<>>, fetches |-> <<>>,
   applied |-> <<>>, call |-> NoCall]

NoOp ==
  [impl |-> "", client |-> 0, op |-> "", key |-> "", value |-> None,
   ttl |-> None, result |-> None]

\* the identity the constructor gives the client, lines 153 and 155
Identity(cid, user) == [client_id |-> cid, username |-> user]

\* __init__: the store holds the pre-seeded token when one is given
InitData(seed) ==
  IF Truthy(seed) THEN MemoryStorage_set(<<>>, access_token_key, seed, None)
  ELSE <<>>

SeedTokens == {None, Str(""), Str("T0")}

InitWith(T) ==
  /\ cfg \in [auto_retry : BOOLEAN, access_token : SeedTokens]
  /\ clients = <<Identity(client_id, username)>>
  /\ data = InitData(cfg.access_token)
  /\ redis = <<>>
  /\ expires_at = None
  /\ now = StartTime
  /\ nExchanges = 0
  /\ server = "any"
  /\ threads = T
  /\ th = [t \in AllThreads |-> Idle]
  /\ lastOp = NoOp

Init == InitWith({1})

---------------------------------------------------------------------------
(* The remote service *)

\* what a resource endpoint may answer.  http: "connerr" (no response at
\* all), "badstatus" (non-2xx), "badjson" (2xx, body not JSON), "ok"
ResourceBody(code, msg, payload) == [code |-> code, msg |-> msg, payload |-> payload]

ResourceResponses ==
  [http : {"connerr", "badstatus", "badjson"}, body : {NoBody}]
    \cup [http : {"ok"},
          body : {ResourceBody(<<>>, <<>>, "P1"),
                  ResourceBody(<<Str("x")>>, <<>>, "P1"),
                  ResourceBody(<<Num(0)>>, <<>>, "P1"),
                  ResourceBody(<<Str("0")>>, <<Str("ok")>>, "P2"),
                  ResourceBody(<<Num(4010)>>, <<>>, ""),
                  ResourceBody(<<Str("4010")>>, <<Str("m")>>, ""),
                  ResourceBody(<<Num(500)>>, <<>>, ""),
                  ResourceBody(<<Num(500)>>, <<Str("m")>>, "")}]

DigitText ==
  (1 :> "1") @@ (2 :> "2") @@ (3 :> "3") @@ (4 :> "4") @@ (5 :> "5")
    @@ (6 :> "6") @@ (7 :> "7") @@ (8 :> "8") @@ (9 :> "9")

\* the token the server issues in its n-th exchange
IssuedToken(n) == Str("T" \o DigitText[n])

ExpiresInValues == {1, 61}

\* what the credential-exchange endpoint may answer to the n-th exchange:
\* {errcode?, description, data?: {access_token?, expires_in?}}
ExchangeFailure(http, errcode) ==
  [http |-> http, errcode |-> errcode, description |-> Str("denied"),
   has_data |-> FALSE, access_token |-> <<>>, expires_in |-> <<>>]

ExchangeSuccess(errcode, has_data, access_token, expires_in) ==
  [http |-> "ok", errcode |-> errcode, description |-> Str(""),
   has_data |-> has_data, access_token |-> access_token,
   expires_in |-> expires_in]

ExchangeResponses(n) ==
  {ExchangeFailure(h, <<>>) : h \in {"connerr", "badstatus", "badjson"}}
    \cup {ExchangeFailure("ok", <<e>>) : e \in {Num(401), Str("0")}}
    \cup {ExchangeSuccess(<<Num(0)>>, FALSE, <<>>, <<>>),
          ExchangeSuccess(<<>>, TRUE, <<>>, <<61>>),
          ExchangeSuccess(<<>>, TRUE, <<IssuedToken(n)>>, <<>>)}
    \cup {ExchangeSuccess(<<Num(0)>>, TRUE, <<tok>>, e) :
            tok \in {None, IssuedToken(n)},
            e \in {<<>>} \cup {<<x>> : x \in ExpiresInValues}}

\* the answers of an endpoint that keeps to its envelope and is reachable:
\* errcode 0 and a token of its own, with or without expires_in
ValidExchangeResponses(n) ==
  {ExchangeSuccess(<<Num(0)>>, TRUE, <<IssuedToken(n)>>, e) :
     e \in {<<>>} \cup {<<x>> : x \in ExpiresInValues}}

ServerResponses(n) ==
  IF server = "valid" THEN ValidExchangeResponses(n) ELSE ExchangeResponses(n)

---------------------------------------------------------------------------
(* Steps of a thread *)

Set(t, rec) == th' = [th EXCEPT ![t] = rec]

\* an exception leaves every frame of the call: nothing catches it
Raise(rec, e) == [rec EXCEPT !.pc = "done", !.err = e]

\* the access_token property returns tok: to the caller of the property, or
\* into kwargs['params'] in _request (line 187), which then sends
ReturnToken(rec, tok) ==
  IF rec.kind = "read"
  THEN [rec EXCEPT !.pc = "done", !.ret = RetToken(tok)]
  ELSE [rec EXCEPT !.pc = "send", !.params_tok = <<tok>>]

\* a call may start while the server still answers the exchanges it may need
CanStart(t) ==
  /\ t \in threads
  /\ th[t].pc \in {"idle", "done"}
  /\ nExchanges + 2 <= MaxExchanges

\* the caller reads client.access_token
Call_access_token(t) ==
  /\ CanStart(t)
  /\ Set(t, [Idle EXCEPT !.pc = "get", !.kind = "read", !.cont = "property"])
  /\ UNCHANGED <<cfg, clients, data, redis, expires_at, now, nExchanges, server, threads, lastOp>>

\* the calls of _request the model makes: accounting_get_accounts and
\* accounting_get_voucher_list as written, and calls with a caller's
\* access_token, with auto_retry=False and with a result_processor
Calls ==
  {Call("get", ACCOUNTS, "", <<>>, TRUE, FALSE),
   Call("post", VOUCHERS, "fromPeriod,toPeriod", <<>>, TRUE, FALSE),
   Call("get", ACCOUNTS, "", <<>>, TRUE, TRUE),
   Call("get", ACCOUNTS, "", <<>>, FALSE, FALSE),
   Call("post", VOUCHERS, "fromPeriod,toPeriod", <<Str("TC")>>, TRUE, TRUE),
   Call("get", ACCOUNTS, "", <<Str("TC")>>, FALSE, FALSE)}

\* _request, lines 174-187: the URL is resolved and, unless the caller put
\* access_token in params, the access_token property is read
Call_request(t) ==
  /\ CanStart(t)
  /\ \E c \in Calls :
       Set(t, [Idle EXCEPT
                 !.pc = IF Has(c.supplied) THEN "send" ELSE "get",
                 !.kind = "request", !.cont = "property", !.call = c,
                 !.method = c.method, !.url = API_BASE_URL \o c.endpoint,
                 !.body = c.body, !.params_tok = c.supplied,
                 !.auto_retry = c.auto_retry, !.processor = c.processor])
  /\ UNCHANGED <<cfg, clients, data, redis, expires_at, now, nExchanges, server, threads, lastOp>>

\* the cached token tok is past the margin of line 316 at this moment
Expired(tok) ==
  Truthy(tok) /\ Truthy(expires_at) /\ ~TokenFresh(expires_at.n, now)

\* access_token, lines 309-310; expired keeps, for the record of the call,
\* whether the token read here was expired when it was read
access_token_get(t) ==
  /\ t \in threads /\ th[t].pc = "get"
  /\ LET tok == MemoryStorage_get(data, access_token_key, None)
     IN Set(t, [th[t] EXCEPT !.tok = tok,
                             !.expired = Expired(tok),
                             !.pc = IF Truthy(tok) THEN "check" ELSE "fetch"])
  /\ UNCHANGED <<cfg, clients, data, redis, expires_at, now, nExchanges, server, threads, lastOp>>

\* lines 311-313 without the case of an unset expires_at: a token with no
\* known expiry is fetched again
access_token_check_NoUnsetCase(t) ==
  /\ t \in threads /\ th[t].pc = "check"
  /\ Set(t, [th[t] EXCEPT !.pc = IF Truthy(expires_at) THEN "margin" ELSE "fetch"])
  /\ UNCHANGED <<cfg, clients, data, redis, expires_at, now, nExchanges, server, threads, lastOp>>

\* access_token, lines 311-313
access_token_check(t) ==
  /\ t \in threads /\ th[t].pc = "check"
  /\ Set(t, IF ~Truthy(expires_at) THEN ReturnToken(th[t], th[t].tok)
            ELSE [th[t] EXCEPT !.pc = "margin"])
  /\ UNCHANGED <<cfg, clients, data, redis, expires_at, now, nExchanges, server, threads, lastOp>>

\* access_token, lines 315-318
access_token_margin(t) ==
  /\ t \in threads /\ th[t].pc = "margin"
  /\ Set(t, IF TokenFresh(expires_at.n, now) THEN ReturnToken(th[t], th[t].tok)
            ELSE [th[t] EXCEPT !.pc = "fetch"])
  /\ UNCHANGED <<cfg, clients, data, redis, expires_at, now, nExchanges, server, threads, lastOp>>

\* access_token, line 320
access_token_return(t) ==
  /\ t \in threads /\ th[t].pc = "reread"
  /\ Set(t, ReturnToken(th[t], MemoryStorage_get(data, access_token_key, None)))
  /\ UNCHANGED <<cfg, clients, data, redis, expires_at, now, nExchanges, server, threads, lastOp>>

\* lines 275-301 without the errcode check of lines 286-293
FetchError_IgnoresErrcode(r) ==
  CASE r.http = "connerr" -> Exc("ConnectionError", None, None)
    [] r.http = "badstatus" -> Exc("JDYClientException", None, None)
    [] r.http = "badjson" -> Exc("JSONDecodeError", None, None)
    [] OTHER ->
         IF ~r.has_data \/ ~Has(r.access_token)
         THEN Exc("KeyError", None, None)
         ELSE NoErr

\* _fetch_access_token, lines 275-301: the exception the response r ends
\* in, NoErr when the token is to be stored
FetchError(r) ==
  CASE r.http = "connerr" -> Exc("ConnectionError", None, None)
    [] r.http = "badstatus" -> Exc("JDYClientException", None, None)
    [] r.http = "badjson" -> Exc("JSONDecodeError", None, None)
    [] OTHER ->
         IF Has(r.errcode) /\ Val(r.errcode) # Num(0)
         THEN Exc("JDYClientException", Val(r.errcode), r.description)
         ELSE IF ~r.has_data \/ ~Has(r.access_token)
         THEN Exc("KeyError", None, None)
         ELSE NoErr

\* _fetch_access_token, lines 295-297
ExpiresIn(r) ==
  IF r.has_data /\ Has(r.expires_in) THEN Val(r.expires_in) ELSE DefaultExpiresIn

\* lines 259-297 with a failed exchange dropping the cached expiry
fetch_access_token_ForgetsExpiry(t) ==
  /\ t \in threads /\ th[t].pc = "fetch"
  /\ \E r \in ServerResponses(nExchanges + 1) :
       LET e == FetchError(r)
           entry == [why |-> th[t].cont, ok |-> e = NoErr]
           rec == [th[t] EXCEPT !.fetches = Append(@, entry), !.exch = r]
       IN Set(t, IF e # NoErr THEN Raise(rec, e)
                 ELSE [rec EXCEPT !.pc = "store",
                                  !.fres = [token |-> r.access_token,
                                            expires_in |-> ExpiresIn(r)]])
  /\ nExchanges' = nExchanges + 1
  /\ expires_at' = IF th'[t].err # NoErr THEN None ELSE expires_at
  /\ UNCHANGED <<cfg, clients, data, redis, now, server, threads, lastOp>>

\* fetch_access_token / _fetch_access_token, lines 259-297: the exchange
\* request and the reading of its response
fetch_access_token(t) ==
  /\ t \in threads /\ th[t].pc = "fetch"
  /\ \E r \in ServerResponses(nExchanges + 1) :
       LET e == FetchError(r)
           entry == [why |-> th[t].cont, ok |-> e = NoErr]
           rec == [th[t] EXCEPT !.fetches = Append(@, entry), !.exch = r]
       IN Set(t, IF e # NoErr THEN Raise(rec, e)
                 ELSE [rec EXCEPT !.pc = "store",
                                  !.fres = [token |-> r.access_token,
                                            expires_in |-> ExpiresIn(r)]])
  /\ nExchanges' = nExchanges + 1
  /\ UNCHANGED <<cfg, clients, data, redis, expires_at, now, server, threads, lastOp>>

\* _fetch_access_token, lines 298-302
fetch_session_set(t) ==
  /\ t \in threads /\ th[t].pc = "store"
  /\ data' = MemoryStorage_set(data, access_token_key, Val(th[t].fres.token),
                               th[t].fres.expires_in)
  /\ Set(t, [th[t] EXCEPT !.pc = "expiry"])
  /\ UNCHANGED <<cfg, clients, redis, expires_at, now, nExchanges, server, threads, lastOp>>

\* _fetch_access_token, lines 303-304: then back in the access_token
\* property (line 320) or in _handle_result (line 239)
fetch_set_expires_at(t) ==
  /\ t \in threads /\ th[t].pc = "expiry"
  /\ expires_at' = Num(IntTime(now) + th[t].fres.expires_in)
  /\ Set(t, [th[t] EXCEPT !.pc = IF th[t].cont = "property" THEN "reread"
                                 ELSE "retry"])
  /\ UNCHANGED <<cfg, clients, data, redis, now, nExchanges, server, threads, lastOp>>

\* _handle_result, lines 249-255: the API error of a non-zero code.  The
\* arguments of the exception are evaluated first, and res is the parsed
\* JSON object (line 212), a dict, which has no attribute 'request'
ApiError(errcode, errmsg) == Exc("AttributeError", None, None)

\* _request and _handle_result with line 257 returning result whether or
\* not a result_processor was given
handle_response_IgnoresProcessor(rec, r, client_auto_retry) ==
  CASE r.http = "connerr" -> Raise(rec, Exc("ConnectionError", None, None))
    [] r.http = "badstatus" -> Raise(rec, Exc("JDYClientException", None, None))
    [] r.http = "badjson" -> Raise(rec, Exc("JSONDecodeError", None, None))
    [] OTHER ->
         IF ~Has(r.body.code)
         THEN Raise(rec, Exc("JDYClientException", None, Str("str(res)")))
         ELSE IF ~IntOk(Val(r.body.code))
         THEN Raise(rec, Exc("ValueError", None, None))
         ELSE
           LET errcode == ToInt(Val(r.body.code))
               result == [r.body EXCEPT !.code = <<errcode>>]
               errmsg == IF Has(result.msg) THEN Val(result.msg) ELSE errcode
           IN IF errcode # Num(0)
              THEN IF client_auto_retry /\ rec.auto_retry
                      /\ errcode = Num(INVALID_CREDENTIAL)
                   THEN [rec EXCEPT !.pc = "fetch", !.cont = "handle"]
                   ELSE Raise(rec, ApiError(errcode, errmsg))
              ELSE [rec EXCEPT !.pc = "done",
                               !.ret = RetResult(result)]

\* _request lines 201-221 and _handle_result lines 228-257 on the response
\* r of one attempt: the thread record after them;  applied logs the results
\* the result_processor is called with (line 257)
handle_response(rec, r, client_auto_retry) ==
  CASE r.http = "connerr" -> Raise(rec, Exc("ConnectionError", None, None))
    [] r.http = "badstatus" -> Raise(rec, Exc("JDYClientException", None, None))
    [] r.http = "badjson" -> Raise(rec, Exc("JSONDecodeError", None, None))
    [] OTHER ->
         IF ~Has(r.body.code)
         THEN Raise(rec, Exc("JDYClientException", None, Str("str(res)")))
         ELSE IF ~IntOk(Val(r.body.code))
         THEN Raise(rec, Exc("ValueError", None, None))
         ELSE
           LET errcode == ToInt(Val(r.body.code))
               result == [r.body EXCEPT !.code = <<errcode>>]
               errmsg == IF Has(result.msg) THEN Val(result.msg) ELSE errcode
           IN IF errcode # Num(0)
              THEN IF client_auto_retry /\ rec.auto_retry
                      /\ errcode = Num(INVALID_CREDENTIAL)
                   THEN [rec EXCEPT !.pc = "fetch", !.cont = "handle"]
                   ELSE Raise(rec, ApiError(errcode, errmsg))
              ELSE [rec EXCEPT !.pc = "done",
                               !.applied = IF rec.processor
                                           THEN Append(@, result) ELSE @,
                               !.ret = IF rec.processor
                                       THEN result_processor(result)
                                       ELSE RetResult(result)]

\* the query and body of the request now sent
RequestSent(rec) ==
  [method |-> rec.method, url |-> rec.url, sid |-> account_id, dbId |-> db_id,
   access_token |-> rec.params_tok, body |-> rec.body]

\* _request, lines 195-225, and _handle_result up to its return, its raise
\* or its call of fetch_access_token (line 238)
request_send(t) ==
  /\ t \in threads /\ th[t].pc = "send"
  /\ \E r \in ResourceResponses :
       Set(t, handle_response(
                [th[t] EXCEPT !.sent = Append(@, RequestSent(th[t])),
                              !.rcvd = Append(@, r)],
                r, cfg.auto_retry))
  /\ UNCHANGED <<cfg, clients, data, redis, expires_at, now, nExchanges, server, threads, lastOp>>

\* lines 239-247 calling _request again without auto_retry=False
handle_result_retry_KeepsAutoRetry(t) ==
  /\ t \in threads /\ th[t].pc = "retry"
  /\ Set(t, [th[t] EXCEPT
               !.params_tok = <<MemoryStorage_get(data, access_token_key, None)>>,
               !.pc = "send"])
  /\ UNCHANGED <<cfg, clients, data, redis, expires_at, now, nExchanges, server, threads, lastOp>>

\* lines 239-247 calling _request again without result_processor
handle_result_retry_DropsProcessor(t) ==
  /\ t \in threads /\ th[t].pc = "retry"
  /\ Set(t, [th[t] EXCEPT
               !.params_tok = <<MemoryStorage_get(data, access_token_key, None)>>,
               !.auto_retry = FALSE, !.processor = FALSE, !.pc = "send"])
  /\ UNCHANGED <<cfg, clients, data, redis, expires_at, now, nExchanges, server, threads, lastOp>>

\* _handle_result, lines 239-247: the stored token replaces the one in
\* params and _request is called again with auto_retry=False; params holds
\* access_token, so lines 185-187 read no token
handle_result_retry(t) ==
  /\ t \in threads /\ th[t].pc = "retry"
  /\ Set(t, [th[t] EXCEPT
               !.params_tok = <<MemoryStorage_get(data, access_token_key, None)>>,
               !.auto_retry = FALSE, !.pc = "send"])
  /\ UNCHANGED <<cfg, clients, data, redis, expires_at, now, nExchanges, server, threads, lastOp>>

\* time passes
Tick ==
  /\ now < MaxTime
  /\ now' = now + 1
  /\ UNCHANGED <<cfg, clients, data, redis, expires_at, nExchanges, server, threads, th, lastOp>>

\* one step inside a call
Step(t) ==
  \/ access_token_get(t)
  \/ access_token_check(t)
  \/ access_token_margin(t)
  \/ access_token_return(t)
  \/ fetch_access_token(t)
  \/ fetch_session_set(t)
  \/ fetch_set_expires_at(t)
  \/ request_send(t)
  \/ handle_result_retry(t)

Next ==
  \/ \E t \in AllThreads : Call_access_token(t)
  \/ \E t \in AllThreads : Call_request(t)
  \/ \E t \in AllThreads : Step(t)
  \/ Tick

Spec == Init /\ [][Next]_vars

\* a thread inside a call keeps running: nothing in the code waits
FairSpec == Spec /\ \A t \in AllThreads : WF_vars(Step(t))

---------------------------------------------------------------------------
(* Two threads reading access_token of one client, against an exchange     *)
(* endpoint that always answers with a token                               *)

InitTwo ==
  /\ cfg \in [auto_retry : {TRUE}, access_token : {None, Str("T0")}]
  /\ clients = <<Identity(client_id, username)>>
  /\ data = InitData(cfg.access_token)
  /\ redis = <<>>
  /\ expires_at = None
  /\ now = StartTime
  /\ nExchanges = 0
  /\ server = "valid"
  /\ threads = AllThreads
  /\ th = [t \in AllThreads |-> Idle]
  /\ lastOp = NoOp

\* one step inside a read of access_token
StepRead(t) ==
  \/ access_token_get(t)
  \/ access_token_check(t)
  \/ access_token_margin(t)
  \/ access_token_return(t)
  \/ fetch_access_token(t)
  \/ fetch_session_set(t)
  \/ fetch_set_expires_at(t)

NextTwo ==
  \/ \E t \in AllThreads : Call_access_token(t)
  \/ \E t \in AllThreads : StepRead(t)
  \/ Tick

\* the threads interleave line by line: the client takes no lock
SpecTwo == InitTwo /\ [][NextTwo]_vars

---------------------------------------------------------------------------
(* The credential stores on their own: any sequence of get, set and delete *)
(* on a MemoryStorage and on a RedisStorage                                *)

StoreKeys == {access_token_key, "other"}
SetValues == {None, Str(""), Str("T0"), Str("T1")}
Defaults == {None, Str("dflt")}
Ttls == {None, Num(7200)}

Op(impl, op, key, value, ttl, result) ==
  [impl |-> impl, client |-> 0, op |-> op, key |-> key, value |-> value,
   ttl |-> ttl, result |-> result]

StoreFrame == UNCHANGED <<cfg, clients, expires_at, now, nExchanges, server, threads, th>>

Memory_get ==
  /\ \E key \in StoreKeys, default \in Defaults :
       lastOp' = Op("memory", "get", key, default, None,
                    MemoryStorage_get(data, key, default))
  /\ UNCHANGED <<data, redis>>
  /\ StoreFrame

Memory_set ==
  /\ \E key \in StoreKeys, value \in SetValues, ttl \in Ttls :
       /\ data' = MemoryStorage_set(data, key, value, ttl)
       /\ lastOp' = Op("memory", "set", key, value, ttl, None)
  /\ UNCHANGED redis
  /\ StoreFrame

Memory_delete ==
  /\ \E key \in StoreKeys :
       /\ data' = MemoryStorage_delete(data, key)
       /\ lastOp' = Op("memory", "delete", key, None, None, None)
  /\ UNCHANGED redis
  /\ StoreFrame

Redis_get ==
  /\ \E key \in StoreKeys, default \in Defaults :
       lastOp' = Op("redis", "get", key, default, None,
                    RedisStorage_get(redis, key, default))
  /\ UNCHANGED <<data, redis>>
  /\ StoreFrame

Redis_set ==
  /\ \E key \in StoreKeys, value \in SetValues, ttl \in Ttls :
       /\ redis' = RedisStorage_set(redis, key, value, ttl)
       /\ lastOp' = Op("redis", "set", key, value, ttl, None)
  /\ UNCHANGED data
  /\ StoreFrame

Redis_delete ==
  /\ \E key \in StoreKeys :
       /\ redis' = RedisStorage_delete(redis, key)
       /\ lastOp' = Op("redis", "delete", key, None, None, None)
  /\ UNCHANGED data
  /\ StoreFrame

\* the redis server drops a key whose time to live has run out
Redis_expire ==
  /\ \E k \in DOMAIN redis :
       /\ redis[k].ex # None
       /\ redis' = [x \in DOMAIN redis \ {k} |-> redis[x]]
       /\ lastOp' = Op("redis", "expire", k, None, None, None)
  /\ UNCHANGED data
  /\ StoreFrame

InitStore ==
  /\ cfg = [auto_retry |-> TRUE, access_token |-> None]
  /\ clients = <<Identity(client_id, username)>>
  /\ data = <<>>
  /\ redis = <<>>
  /\ expires_at = None
  /\ now = StartTime
  /\ nExchanges = 0
  /\ server = "any"
  /\ threads = {}
  /\ th = [t \in AllThreads |-> Idle]
  /\ lastOp = NoOp

NextStore ==
  \/ Memory_get
  \/ Memory_set
  \/ Memory_delete
  \/ Redis_get
  \/ Redis_set
  \/ Redis_delete
  \/ Redis_expire

SpecStore == InitStore /\ [][NextStore]_vars

---------------------------------------------------------------------------
(* Two client instances on one MemoryStorage: each writes the tokens it is *)
(* issued under its own access_token_key and reads that key back           *)

\* client_id and username are arbitrary strings
ClientIds == {"a", "a_b"}
Usernames == {"c", "b_c"}

\* self.access_token_key of client i
KeyOfClient(i) == AccessTokenKey(clients[i].client_id, clients[i].username)

\* the tokens the server issues to client i
ClientTokens(i) == {IssuedToken(i), IssuedToken(i + 2)}

ClientOp(i, op, key, value, ttl, result) ==
  [impl |-> "memory", client |-> i, op |-> op, key |-> key, value |-> value,
   ttl |-> ttl, result |-> result]

KeysFrame == UNCHANGED <<cfg, clients, redis, expires_at, now, nExchanges, server, threads, th>>

\* _fetch_access_token, lines 298-302, by client i
Client_session_set(i) ==
  /\ \E tok \in ClientTokens(i) :
       /\ data' = MemoryStorage_set(data, KeyOfClient(i), tok, Num(DefaultExpiresIn))
       /\ lastOp' = ClientOp(i, "set", KeyOfClient(i), tok, Num(DefaultExpiresIn), None)
  /\ KeysFrame

\* access_token, line 309, by client i
Client_session_get(i) ==
  /\ lastOp' = ClientOp(i, "get", KeyOfClient(i), None, None,
                        MemoryStorage_get(data, KeyOfClient(i), None))
  /\ UNCHANGED data
  /\ KeysFrame

InitKeys ==
  /\ cfg = [auto_retry |-> TRUE, access_token |-> None]
  /\ clients \in [{1, 2} -> {Identity(c, u) : c \in ClientIds, u \in Usernames}]
  /\ data = <<>>
  /\ redis = <<>>
  /\ expires_at = None
  /\ now = StartTime
  /\ nExchanges = 0
  /\ server = "any"
  /\ threads = {}
  /\ th = [t \in AllThreads |-> Idle]
  /\ lastOp = NoOp

NextKeys ==
  \/ \E i \in DOMAIN clients : Client_session_set(i)
  \/ \E i \in DOMAIN clients : Client_session_get(i)

SpecKeys == InitKeys /\ [][NextKeys]_vars

---------------------------------------------------------------------------
(* Claims *)

\* the token the store holds under the client's key, None when it holds none
Stored == MemoryStorage_get(data, access_token_key, None)

InCall(t) == th[t].pc \notin {"idle", "done"}

Last(seq) == seq[Len(seq)]

\* the code of a resource response as a number; -1 when it has none
CodeOf(r) ==
  IF r.http = "ok" /\ Has(r.body.code) /\ IntOk(Val(r.body.code))
  THEN ToInt(Val(r.body.code)).n
  ELSE -1

\* the exchanges a call made on behalf of the access_token property
\* ("property") or of _handle_result after a 4010 ("handle")
FetchesBy(rec, why) == Len(SelectSeq(rec.fetches, LAMBDA f : f.why = why))

\* seconds of life left to the cached token exceed 60, in ticks
MoreThan60sLeft == expires_at.n * TicksPerSec - now > 60 * TicksPerSec

\* C1: a call of _request with both auto_retry flags true whose first
\* response has code 4010 makes exactly one forced fetch and then exactly one
\* more request; when that one answers 4010 too, nothing more is fetched or
\* sent and the call raises JDYClientException with errcode 4010
C1_RetryOnceThenApiError ==
  \A t \in threads :
    LET rec == th[t] IN
    (/\ rec.pc = "done" /\ rec.kind = "request"
     /\ cfg.auto_retry /\ rec.call.auto_retry
     /\ rec.rcvd # <<>> /\ CodeOf(rec.rcvd[1]) = INVALID_CREDENTIAL)
    => /\ FetchesBy(rec, "handle") = 1
       /\ Len(rec.sent) <= 2
       /\ Last(rec.fetches).ok => Len(rec.sent) = 2
       /\ (Len(rec.rcvd) = 2 /\ CodeOf(rec.rcvd[2]) = INVALID_CREDENTIAL)
            => rec.err = Exc("JDYClientException", Num(INVALID_CREDENTIAL),
                             IF Has(rec.rcvd[2].body.msg)
                             THEN Val(rec.rcvd[2].body.msg)
                             ELSE Num(INVALID_CREDENTIAL))

\* the resources one call may use: two requests, one fetch by the
\* access_token property and one forced by a 4010
C2_Bounded ==
  \A t \in AllThreads :
    /\ Len(th[t].sent) <= 2
    /\ FetchesBy(th[t], "property") <= 1
    /\ FetchesBy(th[t], "handle") <= 1

\* C2: whatever the server answers, a call ends, with a result or an error,
\* after at most two resource requests and at most two credential exchanges
C2_CallTerminates ==
  /\ []C2_Bounded
  /\ \A t \in AllThreads : InCall(t) ~> (th[t].pc = "done")

\* C2 witness: a call ended after two requests both answered 4010 and two
\* exchanges
C2_Witness ==
  /\ th[1].pc = "done" /\ Len(th[1].sent) = 2 /\ Len(th[1].fetches) = 2
  /\ CodeOf(th[1].rcvd[1]) = INVALID_CREDENTIAL
  /\ CodeOf(th[1].rcvd[2]) = INVALID_CREDENTIAL

\* the access_token property hands tok to its caller in this step
Returns(t, tok) ==
  IF th[t].kind = "read"
  THEN th'[t].pc = "done" /\ th'[t].ret = RetToken(tok) /\ th'[t].err = NoErr
  ELSE th'[t].pc = "send" /\ th'[t].params_tok = <<tok>>

\* C3: when the store holds a token and expires_at is set and more than 60
\* seconds ahead of the clock read at line 315, the access_token property
\* returns the stored token, makes no exchange and leaves the store and
\* expires_at as they are
C3_FreshTokenReturned ==
  [][\A t \in threads :
       (/\ th[t].pc = "margin" /\ th'[t].pc # "margin"
        /\ Truthy(Stored) /\ Truthy(expires_at) /\ MoreThan60sLeft)
       => /\ Returns(t, Stored)
          /\ th'[t].fetches = <<>>
          /\ UNCHANGED <<data, expires_at, nExchanges>>]_vars

\* C3 witness: a read of access_token has returned a token cached by an
\* earlier call, with more than 60 seconds left and without any exchange
C3_Witness ==
  /\ th[1].pc = "done" /\ th[1].kind = "read" /\ th[1].fetches = <<>>
  /\ Truthy(expires_at) /\ MoreThan60sLeft
  /\ Truthy(Stored) /\ th[1].ret = RetToken(Stored)

\* C4: when the store holds no token, or holds one whose expires_at is set
\* and at most 60 seconds ahead, the access_token property makes exactly one
\* exchange and, when the exchange succeeds, returns the access_token of its
\* response, not the token stored before
C4_StaleTokenRefetched ==
  /\ [][\A t \in threads :
          /\ (th[t].pc = "get" /\ th'[t].pc # "get" /\ ~Truthy(Stored))
               => th'[t].pc = "fetch"
          /\ (th[t].pc = "margin" /\ th'[t].pc # "margin"
              /\ Truthy(Stored) /\ Truthy(expires_at) /\ ~MoreThan60sLeft)
               => th'[t].pc = "fetch"]_vars
  /\ [](\A t \in threads :
          (th[t].pc = "done" /\ th[t].kind = "read" /\ th[t].fetches # <<>>)
          => /\ Len(th[t].fetches) = 1
             /\ th[t].fetches[1].ok
                  => th[t].ret = RetToken(Val(th[t].exch.access_token)))

\* C5: for a client built with an access_token, as long as no exchange has
\* been made, expires_at is unset, the store holds the pre-seeded token, the
\* access_token property is not about to fetch, and every read of it has
\* returned the pre-seeded token
C5_PreseededTokenKept ==
  (Truthy(cfg.access_token) /\ nExchanges = 0)
  => /\ expires_at = None
     /\ Stored = cfg.access_token
     /\ \A t \in threads :
          /\ th[t].pc = "fetch" => th[t].cont = "handle"
          /\ th[t].pc \notin {"margin", "store", "expiry", "reread"}
          /\ (th[t].pc = "done" /\ th[t].kind = "read")
               => th[t].ret = RetToken(cfg.access_token) /\ th[t].err = NoErr
          /\ th[t].kind = "request" /\ ~Has(th[t].call.supplied)
               => \A i \in 1..Len(th[t].sent) :
                    th[t].sent[i].access_token = <<cfg.access_token>>

\* C5 witness: the pre-seeded token was returned by a read made after time
\* has passed, with no exchange ever made
C5_Witness ==
  /\ Truthy(cfg.access_token) /\ nExchanges = 0 /\ now = MaxTime
  /\ th[1].pc = "done" /\ th[1].kind = "read"
  /\ th[1].ret = RetToken(cfg.access_token)

\* what every get of both stores answers in the current state
StoreGets(d, r) ==
  [impl \in {"memory", "redis"}, key \in StoreKeys, default \in Defaults |->
     IF impl = "memory" THEN MemoryStorage_get(d, key, default)
     ELSE RedisStorage_get(r, key, default)]

\* C6: in both stores, set(key, None, ttl) changes nothing: every later
\* get(key, default), for the key set and for every other key, answers what
\* it answered before the call
C6_SetNoneIsNoOp ==
  [][(lastOp'.op = "set" /\ lastOp'.value = None)
       => StoreGets(data', redis') = StoreGets(data, redis)]_vars

\* C6 witness: a set of None was made on a key that both stores hold a value
\* for, with a time to live given
C6_Witness ==
  /\ lastOp.op = "set" /\ lastOp.value = None /\ lastOp.ttl # None
  /\ lastOp.key \in DOMAIN data
  /\ key_name(RedisPrefix, lastOp.key) \in DOMAIN redis

\* the value line 257 returns for the JSON object res
Returned(rec, res) ==
  IF rec.call.processor THEN result_processor(res) ELSE RetResult(res)

\* a call of _request has ended and its last response had code 0
EndedOnCodeZero(rec) ==
  /\ rec.pc = "done" /\ rec.kind = "request"
  /\ rec.rcvd # <<>> /\ CodeOf(Last(rec.rcvd)) = 0

\* C7 as stated: a call whose final response has code 0 returns the
\* server's JSON object unchanged, or the result_processor's output for it
C7_PayloadUnchanged ==
  \A t \in threads :
    EndedOnCodeZero(th[t])
    => /\ th[t].err = NoErr
       /\ th[t].ret = Returned(th[t], Last(th[t].rcvd).body)

\* C7 amended: a call whose final response has code 0 returns the server's
\* JSON object with code converted to the integer 0 and every other field
\* unchanged, or the result_processor's output for that object
C7_PayloadWithIntCode ==
  \A t \in threads :
    EndedOnCodeZero(th[t])
    => /\ th[t].err = NoErr
       /\ th[t].ret = Returned(th[t], [Last(th[t].rcvd).body EXCEPT !.code = <<Num(0)>>])

\* C7 witness: a call with a result_processor ended on a retried response
\* whose code was the string "0"
C7_Witness ==
  /\ EndedOnCodeZero(th[1]) /\ th[1].call.processor /\ Len(th[1].rcvd) = 2
  /\ Last(th[1].rcvd).body.code = <<Str("0")>>
  /\ th[1].ret.tag = "processed"

\* thread t receives a resource response in this step
Receives(t) == Len(th'[t].rcvd) = Len(th[t].rcvd) + 1

\* C8: a response with a non-zero code that is not 4010, or that arrives
\* while the client's or the call's auto_retry is false, causes no exchange
\* and no further request, leaves the store and expires_at alone, and ends
\* the call with JDYClientException(code, msg), the code standing in for a
\* missing msg
C8_ApiErrorSurfaced ==
  [][\A t \in threads :
       (/\ Receives(t)
        /\ CodeOf(Last(th'[t].rcvd)) \notin {-1, 0}
        /\ \/ CodeOf(Last(th'[t].rcvd)) # INVALID_CREDENTIAL
           \/ ~cfg.auto_retry
           \/ ~th[t].auto_retry)
       => /\ th'[t].pc = "done"
          /\ th'[t].err =
               Exc("JDYClientException", Num(CodeOf(Last(th'[t].rcvd))),
                   IF Has(Last(th'[t].rcvd).body.msg)
                   THEN Val(Last(th'[t].rcvd).body.msg)
                   ELSE Num(CodeOf(Last(th'[t].rcvd))))
          /\ th'[t].fetches = th[t].fetches
          /\ UNCHANGED <<data, expires_at, nExchanges>>]_vars

\* the request failed in transport or its JSON object has no code
TransportOrMalformed(r) ==
  \/ r.http \in {"connerr", "badstatus"}
  \/ r.http = "ok" /\ ~Has(r.body.code)

\* C9: a request that fails in transport (connection error, non-2xx status)
\* or whose JSON object has no code ends the call at once with
\* JDYClientException: no exchange, no further request, store and
\* expires_at as they were
C9_TransportErrorSurfaced ==
  [][\A t \in threads :
       (Receives(t) /\ TransportOrMalformed(Last(th'[t].rcvd)))
       => /\ th'[t].pc = "done"
          /\ th'[t].err.kind = "JDYClientException"
          /\ th'[t].fetches = th[t].fetches
          /\ UNCHANGED <<data, expires_at, nExchanges>>]_vars

\* C10: a failed credential exchange is the last thing its call does: the
\* call has ended with the error and without a result, no other exchange of
\* the call failed before it, no request follows it (none at all after a
\* failed fetch by the access_token property, only the first after a failed
\* forced refresh), and a non-zero errcode is raised as
\* JDYClientException(errcode, description)
C10_ExchangeFailurePropagates ==
  \A t \in threads :
    LET rec == th[t] IN
    (rec.fetches # <<>> /\ ~Last(rec.fetches).ok)
    => /\ rec.pc = "done" /\ rec.err # NoErr /\ rec.ret = NoRet
       /\ \A i \in 1..(Len(rec.fetches) - 1) : rec.fetches[i].ok
       /\ Last(rec.fetches).why = "property" => rec.sent = <<>>
       /\ Last(rec.fetches).why = "handle" => Len(rec.sent) = 1
       /\ rec.exch.http = "badstatus"
            => rec.err = Exc("JDYClientException", None, None)
       /\ (rec.exch.http = "ok" /\ Has(rec.exch.errcode)
           /\ Val(rec.exch.errcode) # Num(0))
            => rec.err = Exc("JDYClientException", Val(rec.exch.errcode),
                             rec.exch.description)

\* C10 witness: the forced refresh after a 4010 was answered errcode 401 and
\* the call ended with that error after its single request
C10_Witness ==
  /\ th[1].pc = "done" /\ th[1].fetches # <<>>
  /\ Last(th[1].fetches) = [why |-> "handle", ok |-> FALSE]
  /\ th[1].exch.errcode = <<Num(401)>>
  /\ Len(th[1].sent) = 1
  /\ th[1].err = Exc("JDYClientException", Num(401), Str("denied"))

\* the query string of the request carries access_token: the HTTP library
\* leaves a parameter whose value is None out of the query string
CarriesToken(req) == Has(req.access_token) /\ Val(req.access_token) # None

\* C11: every request of a resource call carries access_token.  When the
\* caller supplied one, the access_token property is never read (no exchange
\* is made on its behalf, none at all before the first request) and the first
\* request sends the caller's value; otherwise the first request sends the
\* value the access_token property returned, the token the store holds then
C11_TokenOnEveryRequest ==
  \A t \in threads :
    LET rec == th[t] IN
    rec.kind = "request"
    => /\ \A i \in 1..Len(rec.sent) : CarriesToken(rec.sent[i])
       /\ Has(rec.call.supplied)
            => /\ FetchesBy(rec, "property") = 0
               /\ rec.sent = <<>> => rec.fetches = <<>>
               /\ rec.sent # <<>> => rec.sent[1].access_token = rec.call.supplied
       /\ (~Has(rec.call.supplied) /\ rec.pc = "send" /\ rec.sent = <<>>)
            => rec.params_tok = <<Stored>>
       /\ (~Has(rec.call.supplied) /\ Len(rec.sent) = 1 /\ rec.pc # "send")
            => rec.sent[1].access_token = rec.params_tok

\* C12: two clients of one store whose (client_id, username) pairs differ
\* have different store keys, so the token under a client's key is one that
\* client wrote and a get by a client never answers another client's token;
\* clients with the same pair have the same key
C12_DistinctKeys ==
  \A i, j \in DOMAIN clients :
    /\ clients[i] = clients[j] => KeyOfClient(i) = KeyOfClient(j)
    /\ clients[i] # clients[j]
         => /\ KeyOfClient(i) # KeyOfClient(j)
            /\ MemoryStorage_get(data, KeyOfClient(i), None)
                 \in {None} \cup ClientTokens(i)
            /\ (lastOp.op = "get" /\ lastOp.client = i)
                 => lastOp.result \in {None} \cup ClientTokens(i)

\* C13: the second request of a call follows a first one answered 4010 and
\* a successful forced refresh; it has the method, URL, sid = account_id,
\* dbId = db_id and body of the first and, for access_token, the token the
\* forced refresh obtained and stored, whatever the first request sent; a
\* call that returns after it returns the result of the second response (its
\* code as an integer), passed through the result_processor when one is given
C13_RetrySameRequestNewToken ==
  \A t \in threads :
    LET rec == th[t] IN
    Len(rec.sent) = 2
    => /\ CodeOf(rec.rcvd[1]) = INVALID_CREDENTIAL
       /\ Last(rec.fetches) = [why |-> "handle", ok |-> TRUE]
       /\ rec.sent[2].method = rec.sent[1].method
       /\ rec.sent[2].url = rec.sent[1].url
       /\ rec.sent[2].body = rec.sent[1].body
       /\ rec.sent[2].sid = account_id /\ rec.sent[1].sid = account_id
       /\ rec.sent[2].dbId = db_id /\ rec.sent[1].dbId = db_id
       /\ rec.sent[2].access_token = rec.exch.access_token
       /\ rec.sent[2].access_token = <<Stored>>
       /\ (rec.pc = "done" /\ rec.err = NoErr)
            => /\ Len(rec.rcvd) = 2
               /\ rec.ret = Returned(rec, [rec.rcvd[2].body EXCEPT !.code = <<Num(0)>>])

\* the time to live a successful exchange response r asks for
ExchangeTtl(r) == IF Has(r.expires_in) THEN Val(r.expires_in) ELSE 7200

\* C14: after an exchange answered with errcode 0 or none, line 298 writes
\* the response's access_token under the client's key, and no other key,
\* with ttl = the response's expires_in, 7200 when it has none; line 303
\* sets expires_at to the clock's whole seconds plus that same number; and
\* when _fetch_access_token returns the store holds the response's token
C14_SuccessfulExchangeCached ==
  [][\A t \in threads :
       /\ (th[t].pc = "store" /\ th'[t].pc = "expiry")
            => /\ ~Has(th[t].exch.errcode) \/ Val(th[t].exch.errcode) = Num(0)
               /\ th[t].fres.expires_in = ExchangeTtl(th[t].exch)
               /\ DOMAIN data' = DOMAIN data \cup {access_token_key}
               /\ \A k \in DOMAIN data \ {access_token_key} : data'[k] = data[k]
               /\ MemoryStorage_get(data', access_token_key, None)
                    = Val(th[t].exch.access_token)
       /\ (th[t].pc = "expiry" /\ th'[t].pc # "expiry")
            => /\ expires_at' = Num(IntTime(now) + ExchangeTtl(th[t].exch))
               /\ MemoryStorage_get(data', access_token_key, None)
                    = Val(th[t].exch.access_token)]_vars

\* the tokens obtained by the exchanges the threads made in their last reads
FetchedTokens ==
  {Val(th[u].exch.access_token) : u \in {x \in threads : th[x].fetches # <<>>}}

\* every thread has ended a read of access_token in which line 309 read the
\* same cached token, expired when each of them read it
ReadSameExpiredToken ==
  \A t, u \in threads :
    /\ th[t].pc = "done" /\ th[t].kind = "read"
    /\ th[t].expired /\ th[t].tok = th[u].tok

\* C15: when the threads of a client have read access_token while the same
\* cached token was expired, each of them has returned a token obtained by
\* an exchange of one of these reads, not the expired token and not an empty
\* value, and the store holds one of the tokens so obtained
C15_ConcurrentReadsReturnFetched ==
  ReadSameExpiredToken
  => /\ \A t \in threads :
          /\ th[t].err = NoErr
          /\ th[t].ret = RetToken(th[t].ret.tok)
          /\ Truthy(th[t].ret.tok)
          /\ th[t].ret.tok # th[t].tok
          /\ th[t].ret.tok \in FetchedTokens
     /\ Stored \in FetchedTokens

\* thread t executes line 298 of a successful fetch in this step
StoresFetched(t) == th[t].pc = "store" /\ th'[t].pc = "expiry"

FailedExchange(r) ==
  \/ r.http # "ok"
  \/ Has(r.errcode) /\ Val(r.errcode) # Num(0)
  \/ ~r.has_data
  \/ ~Has(r.access_token)

\* thread t makes an exchange in this step
Exchanges(t) == Len(th'[t].fetches) = Len(th[t].fetches) + 1

\* C17: an exchange that fails is raised as an error before anything is
\* written: the step leaves the store and expires_at as they were and ends
\* the call, so no later line of the call writes them either
C17_FailedExchangeKeepsCache ==
  [][\A t \in threads :
       (Exchanges(t) /\ FailedExchange(th'[t].exch))
       => /\ ~Last(th'[t].fetches).ok
          /\ th'[t].pc = "done" /\ th'[t].err # NoErr
          /\ data' = data
          /\ expires_at' = expires_at]_vars

\* C17 witness: with a token cached and its expiry set, an exchange was
\* answered errcode 0 without data and the call ended in KeyError
C17_Witness ==
  /\ th[1].pc = "done" /\ th[1].fetches # <<>> /\ ~Last(th[1].fetches).ok
  /\ th[1].exch.errcode = <<Num(0)>> /\ ~th[1].exch.has_data
  /\ th[1].err.kind = "KeyError"
  /\ Truthy(Stored) /\ Truthy(expires_at)

\* thread t is between lines 298 and 303 of a fetch
MidFetch(t) == th[t].pc \in {"store", "expiry"}

\* C18: with one thread, outside lines 298-303: when the current call has
\* made a successful exchange, the store holds that exchange's access_token
\* and expires_at is a clock second not after now plus that exchange's
\* expires_in (7200 when it gave none); and the token and expires_at change
\* at no other place, so the pair stays that of the most recent successful
\* exchange until the next one
C18_ExpiryBelongsToStoredToken ==
  /\ [](\A t \in threads :
          (th[t].fetches # <<>> /\ Last(th[t].fetches).ok /\ ~MidFetch(t))
          => /\ Truthy(expires_at)
             /\ Stored = Val(th[t].exch.access_token)
             /\ \E s \in 0..IntTime(now) :
                  expires_at = Num(s + ExchangeTtl(th[t].exch)))
  /\ [][<<Stored, expires_at>>' # <<Stored, expires_at>>
          => \E t \in threads : MidFetch(t) /\ th'[t].pc # th[t].pc]_vars

\* the store holds the token of thread t's last exchange and expires_at is a
\* clock second not after now plus that exchange's expires_in
PairOfExchangeBy(t) ==
  /\ Stored = Val(th[t].exch.access_token)
  /\ \E s \in 0..IntTime(now) : expires_at = Num(s + ExchangeTtl(th[t].exch))

\* C19: when each thread has ended a read of access_token in which it made
\* a successful exchange, the token in the store and expires_at are those of
\* one and the same of these exchanges
C19_TokenAndExpiryOfOneExchange ==
  (\A t \in threads :
     /\ th[t].pc = "done" /\ th[t].kind = "read"
     /\ th[t].fetches # <<>> /\ Last(th[t].fetches).ok)
  => \E t \in threads : PairOfExchangeBy(t)

\* C20: in one call of _request the result_processor is called at most
\* once, and only when one was given; when it has been called the call has
\* returned, its last response had code 0, the processor was given that
\* response's result and its output is what the call returned; a call given
\* a processor that ends on a code 0 response, the first or the retried one,
\* has called it, and a call that ended on any other response has not
C20_ProcessorOnceOnCodeZero ==
  \A t \in threads :
    LET rec == th[t] IN
    /\ Len(rec.applied) <= 1
    /\ ~rec.call.processor => rec.applied = <<>>
    /\ rec.applied # <<>>
         => /\ rec.pc = "done" /\ rec.err = NoErr
            /\ CodeOf(Last(rec.rcvd)) = 0
            /\ rec.applied = <<[Last(rec.rcvd).body EXCEPT !.code = <<Num(0)>>]>>
            /\ rec.ret = result_processor(rec.applied[1])
    /\ (rec.call.processor /\ EndedOnCodeZero(rec)) => rec.applied # <<>>
    /\ (rec.pc = "done" /\ rec.rcvd # <<>> /\ CodeOf(Last(rec.rcvd)) # 0)
         => rec.applied = <<>> /\ rec.ret = NoRet

\* C20 witness: a call with a result_processor and a caller's token was
\* answered 4010, then 0 on the retry, and the processor was called with the
\* retried response's result
C20_Witness ==
  /\ th[1].pc = "done" /\ th[1].call.processor /\ Has(th[1].call.supplied)
  /\ Len(th[1].rcvd) = 2
  /\ CodeOf(th[1].rcvd[1]) = INVALID_CREDENTIAL
  /\ th[1].rcvd[2].body.code = <<Num(0)>>
  /\ th[1].applied = <<th[1].rcvd[2].body>>

====
